---- MODULE Spec2Model ----
(***************************************************************************)
(* LeadStorm (src/LeadStorm/leadstorm.py): a four stage lead pipeline      *)
(* driven from a Tk form.  scrape_public_fb_leads -> qualify_leads ->      *)
(* enrich_leads -> upload_to_sheets, called in sequence by the button      *)
(* callback start_process.                                                 *)
(*                                                                         *)
(* Python values: a str that the code inspects character by character     *)
(* (post text, audience, scoring reply) is a sequence of one-character     *)
(* strings; other strs are atoms.  A value that may be None is tagged:     *)
(* None, or Str(v).  A dict is a function on its keys, so a missing key    *)
(* is a key outside DOMAIN.  Lead dicts live in heap (object identity ->   *)
(* dict); the lists of the program are sequences of identities, so the     *)
(* in-place mutation of a lead is seen through every list that holds it.   *)
(* The identity of a lead is the position in the feed of the post it was   *)
(* made from.                                                              *)
(***************************************************************************)
EXTENDS Integers, Sequences, FiniteSets, TLC

VARIABLES
  pc,          \* control point of the program
  caller,      \* "run": stage called by start_process; "unit": called directly
  audience,    \* target_audience
  yielded,     \* number of posts the get_posts generator has produced
  heap,        \* lead dicts by identity
  leads,       \* the `leads` local/parameter of the running stage function
  qualified,   \* the `qualified` local of qualify_leads
  idx,         \* position of the for-loop of qualify_leads / enrich_leads
  score,       \* the `score` local of qualify_leads (-1 before the first lead)
  ret,         \* value returned by the stage function that returned last
  raw_leads,   \* start_process locals
  qualified_leads,
  enriched_leads,
  scoreCalls,  \* identities of the leads a scoring call was issued for, in order
  scoreFails,  \* identities of the leads whose scoring call raised
  lookupCalls, \* identities of the leads a lookup call was issued for, in order
  lookupResult,\* identity -> answer of the lookup call issued for that lead
  rows,        \* the rows handed to sheet.update
  dialog,      \* the messagebox shown by the program since the last button press
  button,      \* state of start_button
  window,      \* the Tk root window
  invoked,     \* the stages start_process has called
  publishRaised, \* upload_to_sheets re-raised a failure in this run
  last,        \* the external answer given last in this stage (NoAnswer: none yet)
  changes      \* how many times an external answer differed from the one before

vars == <<pc, caller, audience, yielded, heap, leads, qualified, idx, score, ret,
          raw_leads, qualified_leads, enriched_leads, scoreCalls, scoreFails,
          lookupCalls, lookupResult, rows, dialog, button, window, invoked,
          publishRaised, last, changes>>

----------------------------------------------------------------------------
(* Program constants *)

LEADS_PER_RUN == 10
ScrapeCapFactor == 2
ScoreThreshold == 5
ExcerptLen == 50

(* Bounds of the model *)

MaxPosts == 21        \* posts the feed yields when scrape is called directly
MaxRunPosts == 4      \* posts the feed yields in a whole run
MaxLeads == 11        \* length of the list given to qualify_leads / enrich_leads
MaxRows == 3          \* length of the list given to upload_to_sheets
MaxReplyLen == 3      \* length of a scoring reply when every string is tried
MaxChanges == 1       \* times an external service changes its answer in a stage

----------------------------------------------------------------------------
(* Python values *)

None == [t |-> "none"]
Str(v) == [t |-> "str", v |-> v]

Min(a, b) == IF a <= b THEN a ELSE b

Range(s) == {s[i] : i \in DOMAIN s}

\* str.lower() on the letters of the model's alphabet
LowerChar(c) ==
  CASE c = "A" -> "a"
    [] c = "B" -> "b"
    [] c = "C" -> "c"
    [] OTHER -> c

Lower(s) == [i \in 1..Len(s) |-> LowerChar(s[i])]

\* `sub in s` for strs
Contains(sub, s) ==
  \E i \in 0..(Len(s) - Len(sub)) : SubSeq(s, i + 1, i + Len(sub)) = sub

\* str.strip(): the longest slice that neither starts nor ends with whitespace
IsSpace(c) == c = " "

RECURSIVE LStrip(_)
LStrip(s) == IF s # <<>> /\ IsSpace(Head(s)) THEN LStrip(Tail(s)) ELSE s

RECURSIVE RStrip(_)
RStrip(s) ==
  IF s # <<>> /\ IsSpace(s[Len(s)]) THEN RStrip(SubSeq(s, 1, Len(s) - 1)) ELSE s

Strip(s) == RStrip(LStrip(s))

\* s[:n]
Take(s, n) == SubSeq(s, 1, Min(n, Len(s)))

----------------------------------------------------------------------------
(* The external services.  Each call is answered by one element of a pool; *)
(* within one stage the answer differs from the answer before at most      *)
(* MaxChanges times.                                                       *)

NoAnswer == [kind |-> "nothing"]

MayAnswer(a) == last = NoAnswer \/ a = last \/ changes < MaxChanges

Answered(a) ==
  /\ last' = a
  /\ changes' = IF last # NoAnswer /\ a # last THEN changes + 1 ELSE changes

\* posts of the feed: dicts with the fields the collector reads
PostNamed == [text |-> Str(<<"A", "b">>), username |-> Str("u1"), name |-> Str("N1")]
PostAnonymous == [text |-> Str(<<"b", "a">>), username |-> None]
PostNoText == [text |-> None, username |-> Str("u3"), name |-> None]

Posts == {PostNamed, PostAnonymous, PostNoText}

Audiences == { <<>>, <<"a", "B">>, <<"b">>, <<"c">> }

----------------------------------------------------------------------------
(* scrape_public_fb_leads *)

ScrapeCap == LEADS_PER_RUN * ScrapeCapFactor

\* post['text'] and target_audience.lower() in post['text'].lower()
PostMatches(post, aud) ==
  /\ post.text # None
  /\ post.text.v # <<>>
  /\ Contains(Lower(aud), Lower(post.text.v))

\* the dict appended for a matching post
NewLead(post) ==
  [username |-> IF post.username # None /\ post.username.v # ""
                  THEN post.username ELSE Str("unknown"),
   name |-> IF "name" \in DOMAIN post THEN post.name ELSE Str("Unknown User"),
   post |-> post.text.v,
   source |-> "Facebook"]

\* one iteration of `for post in posts`: the generator yields `post`
ScrapeYield(post) ==
  /\ pc = "Collecting"
  /\ MayAnswer(post)
  /\ Answered(post)
  /\ LET n == yielded + 1
         match == PostMatches(post, audience)
         leads2 == IF match THEN Append(leads, n) ELSE leads
     IN /\ yielded' = n
        /\ heap' = IF match THEN (n :> NewLead(post)) @@ heap ELSE heap
        /\ leads' = leads2
        /\ IF Len(leads2) >= ScrapeCap
             THEN pc' = "CollectRet" /\ ret' = leads2
             ELSE pc' = "Collecting" /\ ret' = ret
  /\ UNCHANGED <<caller, audience, qualified, idx, score, raw_leads,
                 qualified_leads, enriched_leads, scoreCalls, scoreFails,
                 lookupCalls, lookupResult, rows, dialog, button, window,
                 invoked, publishRaised>>

\* the generator is exhausted: the loop ends and `leads` is returned
ScrapeExhausted ==
  /\ pc = "Collecting"
  /\ pc' = "CollectRet"
  /\ ret' = leads
  /\ UNCHANGED <<caller, audience, yielded, heap, leads, qualified, idx, score,
                 raw_leads, qualified_leads, enriched_leads, scoreCalls,
                 scoreFails, lookupCalls, lookupResult, rows, dialog, button,
                 window, invoked, publishRaised, last, changes>>

\* the answer of the feed when retrieval raises
FeedRaises == [kind |-> "raise"]

\* the value the except branch of scrape_public_fb_leads returns
ScrapeFailureResultKeepsLeads(ls) == ls

ScrapeFailureResult(ls) == <<>>

\* get_posts, or the fetch of a later page, raises: except Exception -> []
ScrapeFails ==
  /\ pc = "Collecting"
  /\ pc' = "CollectRet"
  /\ ret' = ScrapeFailureResult(leads)
  /\ last' = FeedRaises
  /\ UNCHANGED <<caller, audience, yielded, heap, leads, qualified, idx, score,
                 raw_leads, qualified_leads, enriched_leads, scoreCalls,
                 scoreFails, lookupCalls, lookupResult, rows, dialog, button,
                 window, invoked, publishRaised, changes>>

\* everything but pc, caller, audience, heap, leads in its state before any stage
Fresh ==
  /\ yielded = 0
  /\ qualified = <<>>
  /\ idx = 1
  /\ score = -1
  /\ ret = <<>>
  /\ raw_leads = <<>>
  /\ qualified_leads = <<>>
  /\ enriched_leads = <<>>
  /\ scoreCalls = <<>>
  /\ scoreFails = {}
  /\ lookupCalls = <<>>
  /\ lookupResult = <<>>
  /\ rows = <<>>
  /\ dialog = "none"
  /\ button = "normal"
  /\ window = "open"
  /\ invoked = {}
  /\ publishRaised = FALSE
  /\ last = NoAnswer
  /\ changes = 0

\* scrape_public_fb_leads called directly with any audience
InitScrape ==
  /\ pc = "Collecting"
  /\ caller = "unit"
  /\ audience \in Audiences
  /\ heap = <<>>
  /\ leads = <<>>
  /\ Fresh

NextScrape ==
  \/ \E post \in Posts : yielded < MaxPosts /\ ScrapeYield(post)
  \/ ScrapeExhausted
  \/ ScrapeFails

SpecScrape == InitScrape /\ [][NextScrape]_vars

----------------------------------------------------------------------------
(* qualify_leads *)

\* answers of client.chat.completions.create: a reply whose content is a str
\* or None, or an exception
Reply(content) == [kind |-> "reply", content |-> Str(content)]
ReplyNoContent == [kind |-> "reply", content |-> None]
ScoreRaises == [kind |-> "raise"]

ScoreAnswers ==
  { Reply(<<"7">>), Reply(<<"a", "b", "c">>), Reply(<<" ", "5", " ">>),
    Reply(<<"4">>), ReplyNoContent, ScoreRaises }

\* characters of a reply; "sup2" stands for the one character U+00B2
DecimalDigits == <<"0", "1", "2", "3", "4", "5", "6", "7", "8", "9">>
ReplyAlphabet == {"0", "3", "7", "-", "a", "b", "c", " ", "sup2"}

ReplyStrings == UNION {[1..n -> ReplyAlphabet] : n \in 0..MaxReplyLen}

IsDecimal(c) == c \in Range(DecimalDigits)

\* str.isdigit(): non-empty and every character has the Unicode digit property,
\* which U+00B2 has although int() does not take it
IsDigit(s) == s # <<>> /\ \A i \in 1..Len(s) : IsDecimal(s[i]) \/ s[i] = "sup2"

DigitValue(c) == (CHOOSE i \in 1..Len(DecimalDigits) : DecimalDigits[i] = c) - 1

\* int(s) of a str that passed isdigit(): ValueError unless every character is
\* a decimal digit
IntRaises(s) == \E i \in 1..Len(s) : ~IsDecimal(s[i])

RECURSIVE IntOf(_)
IntOf(s) ==
  IF s = <<>> THEN 0
  ELSE 10 * IntOf(SubSeq(s, 1, Len(s) - 1)) + DigitValue(s[Len(s)])

\* the body of the inner try raises: the call itself, .strip() of a None
\* content, or int()
TryRaises(a) ==
  \/ a.kind = "raise"
  \/ a.content = None
  \/ LET raw_score == Strip(a.content.v)
     IN IsDigit(raw_score) /\ IntRaises(raw_score)

\* as ScoreOf, with int() applied to any reply that int() takes
ScoreOfSigned(a) ==
  IF a.kind = "raise" \/ a.content = None THEN 0
  ELSE LET raw_score == Strip(a.content.v)
       IN IF IsDigit(raw_score) /\ ~IntRaises(raw_score) THEN IntOf(raw_score)
          ELSE IF Len(raw_score) > 1 /\ raw_score[1] = "-"
                  /\ IsDigit(Tail(raw_score)) /\ ~IntRaises(Tail(raw_score))
                 THEN 0 - IntOf(Tail(raw_score))
                 ELSE 0

\* the value of `score` after the inner try/except
ScoreOf(a) ==
  IF TryRaises(a) THEN 0
  ELSE LET raw_score == Strip(a.content.v)
       IN IF IsDigit(raw_score) THEN IntOf(raw_score) ELSE 0

\* `if len(qualified) >= LEADS_PER_RUN: break`
CapReachedOffByOne(q) == Len(q) > LEADS_PER_RUN

CapReached(q) == Len(q) >= LEADS_PER_RUN

\* `if score >= 5`
KeepsOneBelow(s) == s >= ScoreThreshold - 1

Keeps(s) == s >= ScoreThreshold

\* the loop is left after this iteration: only by the break at the cap, since
\* the inner except handles a failed scoring call inside the iteration
LoopLeftOnFailure(a, q) == CapReached(q) \/ TryRaises(a)

LoopLeft(a, q) == CapReached(q)

\* one iteration of `for lead in leads`, the scoring call answered by a
QualifyScore(a) ==
  /\ pc = "Qualifying"
  /\ idx <= Len(leads)
  /\ MayAnswer(a)
  /\ Answered(a)
  /\ LET lead == leads[idx]
         s == ScoreOf(a)
         qualified2 == IF Keeps(s) THEN Append(qualified, lead) ELSE qualified
     IN /\ score' = s
        /\ heap' = IF Keeps(s)
                     THEN [heap EXCEPT ![lead] = ("score" :> s) @@ @]
                     ELSE heap
        /\ qualified' = qualified2
        /\ scoreCalls' = Append(scoreCalls, lead)
        /\ scoreFails' = IF TryRaises(a) THEN scoreFails \cup {lead} ELSE scoreFails
        /\ idx' = idx + 1
        /\ IF LoopLeft(a, qualified2)
             THEN pc' = "QualifyRet" /\ ret' = qualified2
             ELSE pc' = "Qualifying" /\ ret' = ret
  /\ UNCHANGED <<caller, audience, yielded, leads, raw_leads, qualified_leads,
                 enriched_leads, lookupCalls, lookupResult, rows, dialog, button,
                 window, invoked, publishRaised>>

\* the loop ran through `leads`: return qualified
QualifyReturn ==
  /\ pc = "Qualifying"
  /\ idx > Len(leads)
  /\ pc' = "QualifyRet"
  /\ ret' = qualified
  /\ UNCHANGED <<caller, audience, yielded, heap, leads, qualified, idx, score,
                 raw_leads, qualified_leads, enriched_leads, scoreCalls,
                 scoreFails, lookupCalls, lookupResult, rows, dialog, button,
                 window, invoked, publishRaised, last, changes>>

\* OpenAI(api_key=...) raises before the loop: outer except -> []
QualifyStageFails ==
  /\ pc = "Qualifying"
  /\ idx = 1
  /\ pc' = "QualifyRet"
  /\ ret' = <<>>
  /\ UNCHANGED <<caller, audience, yielded, heap, leads, qualified, idx, score,
                 raw_leads, qualified_leads, enriched_leads, scoreCalls,
                 scoreFails, lookupCalls, lookupResult, rows, dialog, button,
                 window, invoked, publishRaised, last, changes>>

\* a list of n leads as the collector builds them
RawHeap(n) == [i \in 1..n |-> NewLead(IF i % 2 = 1 THEN PostNamed ELSE PostAnonymous)]
Ids(n) == [i \in 1..n |-> i]

\* qualify_leads called directly with a list of 0..MaxLeads leads
InitQualify ==
  /\ pc = "Qualifying"
  /\ caller = "unit"
  /\ audience = <<>>
  /\ \E n \in 0..MaxLeads : heap = RawHeap(n) /\ leads = Ids(n)
  /\ Fresh

NextQualify ==
  \/ \E a \in ScoreAnswers : QualifyScore(a)
  \/ QualifyReturn
  \/ QualifyStageFails

SpecQualify == InitQualify /\ [][NextQualify]_vars

\* qualify_leads called with one lead, the reply any string of ReplyStrings
InitScore ==
  /\ pc = "Qualifying"
  /\ caller = "unit"
  /\ audience = <<>>
  /\ heap = RawHeap(1)
  /\ leads = Ids(1)
  /\ Fresh

NextScore ==
  \/ \E r \in ReplyStrings : QualifyScore(Reply(r))
  \/ QualifyReturn

SpecScore == InitScore /\ [][NextScore]_vars

----------------------------------------------------------------------------
(* enrich_leads *)

Dict(d) == [t |-> "dict", v |-> d]

\* answers of requests.get(url, timeout=5).json(): a parsed body, or an
\* exception (timeout, connection error, a body that is not JSON)
Json(body) == [kind |-> "json", body |-> body]
LookupFound == Json([meta |-> "m", data |-> Dict([score |-> 90, email |-> Str("a@x.io")])])
LookupNoData == Json([errors |-> "e"])
LookupNoEmailKey == Json([meta |-> "m", data |-> Dict([score |-> 0])])
LookupNullEmail == Json([meta |-> "m", data |-> Dict([score |-> 0, email |-> None])])
LookupNullData == Json([meta |-> "m", data |-> None])
LookupFails == [kind |-> "raise"]

LookupAnswers ==
  { LookupFound, LookupNoData, LookupNoEmailKey, LookupNullEmail, LookupNullData,
    LookupFails }

\* response.get('data', {})
DataOf(a) == IF "data" \in DOMAIN a.body THEN a.body.data ELSE Dict([none |-> 0])

\* the lookup statement raises: the request, or .get on a None `data`
LookupRaises(a) == a.kind = "raise" \/ DataOf(a) = None

\* response.get('data', {}).get('email', 'N/A')
EmailOf(a) ==
  IF "email" \in DOMAIN DataOf(a).v THEN DataOf(a).v.email ELSE Str("N/A")

\* f"Post: {lead['post'][:50]}..."
WhyFit(post) == <<"Post: ">> \o Take(post, ExcerptLen) \o <<"...">>

\* the value the except branch of enrich_leads returns
EnrichFailureResultEmpty(ls) == <<>>

EnrichFailureResult(ls) == ls

\* one iteration of `for lead in leads`, the lookup answered by a
EnrichLookup(a) ==
  /\ pc = "Enriching"
  /\ idx <= Len(leads)
  /\ MayAnswer(a)
  /\ Answered(a)
  /\ LET lead == leads[idx]
     IN /\ lookupCalls' = Append(lookupCalls, lead)
        /\ lookupResult' = (lead :> a) @@ lookupResult
        /\ IF LookupRaises(a)
             THEN /\ pc' = "EnrichRet"
                  /\ ret' = EnrichFailureResult(leads)
                  /\ UNCHANGED <<heap, idx>>
             ELSE /\ heap' = [heap EXCEPT ![lead] =
                                ("email" :> EmailOf(a)) @@
                                ("why_fit" :> WhyFit(heap[lead].post)) @@ @]
                  /\ idx' = idx + 1
                  /\ UNCHANGED <<pc, ret>>
  /\ UNCHANGED <<caller, audience, yielded, leads, qualified, score, raw_leads,
                 qualified_leads, enriched_leads, scoreCalls, scoreFails, rows,
                 dialog, button, window, invoked, publishRaised>>

\* the loop ran through `leads`: return leads
EnrichReturn ==
  /\ pc = "Enriching"
  /\ idx > Len(leads)
  /\ pc' = "EnrichRet"
  /\ ret' = leads
  /\ UNCHANGED <<caller, audience, yielded, heap, leads, qualified, idx, score,
                 raw_leads, qualified_leads, enriched_leads, scoreCalls,
                 scoreFails, lookupCalls, lookupResult, rows, dialog, button,
                 window, invoked, publishRaised, last, changes>>

\* a list of n leads as the qualifier leaves them
QualifiedHeap(n) == [i \in 1..n |-> ("score" :> 7) @@ RawHeap(n)[i]]

\* enrich_leads called directly with a list of 0..MaxLeads leads
InitEnrich ==
  /\ pc = "Enriching"
  /\ caller = "unit"
  /\ audience = <<>>
  /\ \E n \in 0..MaxLeads : heap = QualifiedHeap(n) /\ leads = Ids(n)
  /\ Fresh

NextEnrich ==
  \/ \E a \in LookupAnswers : EnrichLookup(a)
  \/ EnrichReturn

SpecEnrich == InitEnrich /\ [][NextEnrich]_vars

----------------------------------------------------------------------------
(* upload_to_sheets *)

\* keys of a lead dict in the order the stages insert them
FieldOrder == <<"username", "name", "post", "source", "score", "email", "why_fit">>

NaN == [t |-> "nan"]

\* pd.DataFrame(leads): the columns are the keys in order of first appearance,
\* a key a lead lacks gives NaN
FrameColumns(ls) ==
  SelectSeq(FieldOrder, LAMBDA k : \E i \in 1..Len(ls) : k \in DOMAIN heap[ls[i]])

FrameRow(lead, cols) ==
  [j \in 1..Len(cols) |->
     IF cols[j] \in DOMAIN heap[lead] THEN heap[lead][cols[j]] ELSE NaN]

Frame(ls) ==
  [columns |-> FrameColumns(ls),
   values |-> [i \in 1..Len(ls) |-> FrameRow(ls[i], FrameColumns(ls))]]

\* df.empty: an axis of length 0
FrameEmpty(df) == Len(df.columns) = 0 \/ Len(df.values) = 0

PlaceholderFrame ==
  [columns |-> <<"name", "email", "why_fit">>,
   values |-> << <<"No leads found", "N/A", "Try a different audience">> >>]

\* as SheetRows, without the header row
SheetRowsNoHeader(ls) ==
  LET df == IF FrameEmpty(Frame(ls)) THEN PlaceholderFrame ELSE Frame(ls)
  IN df.values

\* [df.columns.values.tolist()] + df.values.tolist()
SheetRows(ls) ==
  LET df == IF FrameEmpty(Frame(ls)) THEN PlaceholderFrame ELSE Frame(ls)
  IN <<df.columns>> \o df.values

SheetUrl == <<"https://docs.google.com/spreadsheets/d/", "id">>

\* credentials, create, share and update all succeed
UploadWrites ==
  /\ pc = "Publishing"
  /\ rows' = SheetRows(leads)
  /\ ret' = SheetUrl
  /\ pc' = "PublishRet"
  /\ UNCHANGED <<caller, audience, yielded, heap, leads, qualified, idx, score,
                 raw_leads, qualified_leads, enriched_leads, scoreCalls,
                 scoreFails, lookupCalls, lookupResult, dialog, button, window,
                 invoked, publishRaised, last, changes>>

\* any of them raises: logged and re-raised
UploadRaises ==
  /\ pc = "Publishing"
  /\ pc' = "PublishRaised"
  /\ publishRaised' = TRUE
  /\ UNCHANGED <<caller, audience, yielded, heap, leads, qualified, idx, score,
                 ret, raw_leads, qualified_leads, enriched_leads, scoreCalls,
                 scoreFails, lookupCalls, lookupResult, rows, dialog, button,
                 window, invoked, last, changes>>

\* lead dicts as they can reach the publisher
Enriched(email) ==
  ("email" :> email) @@ ("why_fit" :> WhyFit(PostNamed.text.v)) @@
  ("score" :> 7) @@ NewLead(PostNamed)

LeadShapes ==
  { Enriched(Str("a@x.io")), Enriched(Str("N/A")), Enriched(None),
    ("score" :> 9) @@ NewLead(PostAnonymous) }

\* upload_to_sheets called directly with a list of 0..MaxRows leads
InitUpload ==
  /\ pc = "Publishing"
  /\ caller = "unit"
  /\ audience = <<>>
  /\ \E n \in 0..MaxRows : heap \in [1..n -> LeadShapes] /\ leads = Ids(n)
  /\ Fresh

NextUpload == UploadWrites \/ UploadRaises

SpecUpload == InitUpload /\ [][NextUpload]_vars

----------------------------------------------------------------------------
(* run_leadstorm: the form, the button callback start_process and __main__ *)

\* texts the user may have typed into audience_entry
Entries == { <<>>, <<" ">>, <<" ", "b", " ">>, <<"a", "B">>, <<"c">> }

\* run_leadstorm builds the form and enters root.mainloop()
CreateForm ==
  /\ pc = "Startup"
  /\ pc' = "Idle"
  /\ UNCHANGED <<caller, audience, yielded, heap, leads, qualified, idx, score,
                 ret, raw_leads, qualified_leads, enriched_leads, scoreCalls,
                 scoreFails, lookupCalls, lookupResult, rows, dialog, button,
                 window, invoked, publishRaised, last, changes>>

\* tk.Tk() raises (no display): the exception leaves run_leadstorm and is
\* caught by the try/except of __main__
CreateFormFails ==
  /\ pc = "Startup"
  /\ dialog' = "went_wrong"
  /\ window' = "none"
  /\ pc' = "Exited"
  /\ UNCHANGED <<caller, audience, yielded, heap, leads, qualified, idx, score,
                 ret, raw_leads, qualified_leads, enriched_leads, scoreCalls,
                 scoreFails, lookupCalls, lookupResult, rows, button, invoked,
                 publishRaised, last, changes>>

\* the button is pressed with nothing but whitespace in the entry
StartBlank(entry) ==
  /\ pc = "Idle"
  /\ button = "normal"
  /\ Strip(entry) = <<>>
  /\ dialog' = "enter_audience"
  /\ UNCHANGED <<pc, caller, audience, yielded, heap, leads, qualified, idx,
                 score, ret, raw_leads, qualified_leads, enriched_leads,
                 scoreCalls, scoreFails, lookupCalls, lookupResult, rows, button,
                 window, invoked, publishRaised, last, changes>>

\* the button is pressed with an audience: the collector is called
Start(entry) ==
  /\ pc = "Idle"
  /\ button = "normal"
  /\ Strip(entry) # <<>>
  /\ audience' = Strip(entry)
  /\ button' = "disabled"
  /\ invoked' = {"Collector"}
  /\ leads' = <<>>
  /\ dialog' = "none"
  /\ pc' = "Collecting"
  /\ UNCHANGED <<caller, yielded, heap, qualified, idx, score, ret, raw_leads,
                 qualified_leads, enriched_leads, scoreCalls, scoreFails,
                 lookupCalls, lookupResult, rows, window, publishRaised, last,
                 changes>>

\* as NoLeads, without the return: the qualifier is called on the empty list
NoLeadsFallsThrough ==
  /\ pc = "CollectRet"
  /\ caller = "run"
  /\ ret = <<>>
  /\ raw_leads' = ret
  /\ dialog' = "no_leads"
  /\ window' = "destroyed"
  /\ leads' = ret
  /\ idx' = 1
  /\ invoked' = invoked \cup {"Qualifier"}
  /\ pc' = "Qualifying"
  /\ UNCHANGED <<caller, audience, yielded, heap, qualified, score, ret,
                 qualified_leads, enriched_leads, scoreCalls, scoreFails,
                 lookupCalls, lookupResult, rows, button, publishRaised, last,
                 changes>>

\* `if not raw_leads`: warning, root.destroy(), return
NoLeads ==
  /\ pc = "CollectRet"
  /\ caller = "run"
  /\ ret = <<>>
  /\ raw_leads' = ret
  /\ dialog' = "no_leads"
  /\ window' = "destroyed"
  /\ pc' = "NoLeadsFound"
  /\ UNCHANGED <<caller, audience, yielded, heap, leads, qualified, idx, score,
                 ret, qualified_leads, enriched_leads, scoreCalls, scoreFails,
                 lookupCalls, lookupResult, rows, button, invoked, publishRaised,
                 last, changes>>

\* raw_leads is not empty: qualify_leads(raw_leads, ...) is called
CallQualify ==
  /\ pc = "CollectRet"
  /\ caller = "run"
  /\ ret # <<>>
  /\ raw_leads' = ret
  /\ leads' = ret
  /\ qualified' = <<>>
  /\ idx' = 1
  /\ last' = NoAnswer
  /\ invoked' = invoked \cup {"Qualifier"}
  /\ pc' = "Qualifying"
  /\ UNCHANGED <<caller, audience, yielded, heap, score, ret, qualified_leads,
                 enriched_leads, scoreCalls, scoreFails, lookupCalls,
                 lookupResult, rows, dialog, button, window, publishRaised,
                 changes>>

\* `if not qualified_leads`: warning, root.destroy(), return
NoneQualified ==
  /\ pc = "QualifyRet"
  /\ caller = "run"
  /\ ret = <<>>
  /\ qualified_leads' = ret
  /\ dialog' = "none_qualified"
  /\ window' = "destroyed"
  /\ pc' = "NoneQualified"
  /\ UNCHANGED <<caller, audience, yielded, heap, leads, qualified, idx, score,
                 ret, raw_leads, enriched_leads, scoreCalls, scoreFails,
                 lookupCalls, lookupResult, rows, button, invoked, publishRaised,
                 last, changes>>

\* qualified_leads is not empty: enrich_leads(qualified_leads, ...) is called
CallEnrich ==
  /\ pc = "QualifyRet"
  /\ caller = "run"
  /\ ret # <<>>
  /\ qualified_leads' = ret
  /\ leads' = ret
  /\ idx' = 1
  /\ last' = NoAnswer
  /\ invoked' = invoked \cup {"Enricher"}
  /\ pc' = "Enriching"
  /\ UNCHANGED <<caller, audience, yielded, heap, qualified, score, ret,
                 raw_leads, enriched_leads, scoreCalls, scoreFails, lookupCalls,
                 lookupResult, rows, dialog, button, window, publishRaised,
                 changes>>

\* upload_to_sheets(enriched_leads, ...) is called
CallUpload ==
  /\ pc = "EnrichRet"
  /\ caller = "run"
  /\ enriched_leads' = ret
  /\ leads' = ret
  /\ invoked' = invoked \cup {"Publisher"}
  /\ pc' = "Publishing"
  /\ UNCHANGED <<caller, audience, yielded, heap, qualified, idx, score, ret,
                 raw_leads, qualified_leads, scoreCalls, scoreFails, lookupCalls,
                 lookupResult, rows, dialog, button, window, publishRaised, last,
                 changes>>

\* showinfo("Done! ..."), webbrowser.open, root.destroy()
Finish ==
  /\ pc = "PublishRet"
  /\ caller = "run"
  /\ dialog' = "done"
  /\ window' = "destroyed"
  /\ pc' = "Done"
  /\ UNCHANGED <<caller, audience, yielded, heap, leads, qualified, idx, score,
                 ret, raw_leads, qualified_leads, enriched_leads, scoreCalls,
                 scoreFails, lookupCalls, lookupResult, rows, button, invoked,
                 publishRaised, last, changes>>

\* the exception of upload_to_sheets leaves start_process.  start_process is a
\* Tk command callback: Tk reports an exception of a callback on stderr and
\* root.mainloop() goes on, so the exception does not leave run_leadstorm.
\* The window stays open with the button disabled.
CallbackRaises ==
  /\ pc = "PublishRaised"
  /\ caller = "run"
  /\ pc' = "CallbackFailed"
  /\ UNCHANGED <<caller, audience, yielded, heap, leads, qualified, idx, score,
                 ret, raw_leads, qualified_leads, enriched_leads, scoreCalls,
                 scoreFails, lookupCalls, lookupResult, rows, dialog, button,
                 window, invoked, publishRaised, last, changes>>

\* the user closes the window while no callback runs: mainloop returns,
\* run_leadstorm returns, the program ends
CloseWindow ==
  /\ pc \in {"Idle", "CallbackFailed"}
  /\ window' = "destroyed"
  /\ pc' = "Exited"
  /\ UNCHANGED <<caller, audience, yielded, heap, leads, qualified, idx, score,
                 ret, raw_leads, qualified_leads, enriched_leads, scoreCalls,
                 scoreFails, lookupCalls, lookupResult, rows, dialog, button,
                 invoked, publishRaised, last, changes>>

Init ==
  /\ pc = "Startup"
  /\ caller = "run"
  /\ audience = <<>>
  /\ heap = <<>>
  /\ leads = <<>>
  /\ Fresh

Next ==
  \/ CreateForm
  \/ CreateFormFails
  \/ \E entry \in Entries : StartBlank(entry) \/ Start(entry)
  \/ \E post \in Posts : yielded < MaxRunPosts /\ ScrapeYield(post)
  \/ ScrapeExhausted
  \/ ScrapeFails
  \/ NoLeads
  \/ CallQualify
  \/ \E a \in ScoreAnswers : QualifyScore(a)
  \/ QualifyReturn
  \/ QualifyStageFails
  \/ NoneQualified
  \/ CallEnrich
  \/ \E a \in LookupAnswers : EnrichLookup(a)
  \/ EnrichReturn
  \/ CallUpload
  \/ UploadWrites
  \/ UploadRaises
  \/ Finish
  \/ CallbackRaises
  \/ CloseWindow

Spec == Init /\ [][Next]_vars

----------------------------------------------------------------------------
(* Properties *)

AfterEnricherCalled ==
  {"Enriching", "EnrichRet", "Publishing", "PublishRet", "PublishRaised", "Done",
   "CallbackFailed"}

\* C1: in a run started with a non-empty audience, an empty collector result is
\* followed by NoLeadsFound and an empty qualifier result by NoneQualified;
\* NoLeadsFound is entered only from the collector's return and NoneQualified
\* only from the qualifier's return; both end the run, and in them no later
\* stage has been called (no scoring call, no lookup, no row written).
C1_EarlyExits ==
  [][ /\ (pc = "CollectRet" => (ret = <<>> => pc' = "NoLeadsFound"))
      /\ (pc = "QualifyRet" => (ret = <<>> => pc' = "NoneQualified"))
      /\ (pc' = "NoLeadsFound" => pc = "CollectRet" /\ ret = <<>>)
      /\ (pc' = "NoneQualified" => pc = "QualifyRet" /\ ret = <<>>)
      /\ pc \notin {"NoLeadsFound", "NoneQualified"}
      /\ (pc' = "NoLeadsFound" =>
            /\ invoked' = {"Collector"}
            /\ scoreCalls' = <<>> /\ lookupCalls' = <<>> /\ rows' = <<>>)
      /\ (pc' = "NoneQualified" =>
            /\ invoked' = {"Collector", "Qualifier"}
            /\ lookupCalls' = <<>> /\ rows' = <<>>)
    ]_vars

C1_Witness == pc = "NoneQualified" /\ Len(scoreCalls) > 1 /\ audience # <<>>

\* C2: qualify_leads never returns more than LEADS_PER_RUN leads, whatever the
\* input list and the answers of the scoring service.
C2_QualifierCap ==
  /\ Len(qualified) <= LEADS_PER_RUN
  /\ pc = "QualifyRet" => Len(ret) <= LEADS_PER_RUN

C2_Witness ==
  pc = "QualifyRet" /\ Len(ret) = LEADS_PER_RUN /\ Len(scoreCalls) < Len(leads)

\* C3: every lead qualify_leads returns is one of its input leads and has a
\* score field >= 5; so has every lead handed to the enricher or the publisher.
C3_QualifiedScore ==
  /\ pc = "QualifyRet" =>
       \A i \in 1..Len(ret) :
         /\ ret[i] \in Range(raw_leads)
         /\ "score" \in DOMAIN heap[ret[i]]
         /\ heap[ret[i]].score >= 5
  /\ pc \in AfterEnricherCalled =>
       \A i \in 1..Len(leads) :
         "score" \in DOMAIN heap[leads[i]] /\ heap[leads[i]].score >= 5

C3_Witness ==
  pc = "Publishing" /\ leads # <<>> /\ Len(leads) < Len(raw_leads)

\* C4: enrich_leads returns a list as long as its input (here the leads
\* 1..n of the heap), when every lookup succeeds, when one fails and for the
\* empty list.
C4_EnricherKeepsLength ==
  pc = "EnrichRet" =>
    /\ Len(ret) = Cardinality(DOMAIN heap)
    /\ \A i \in 1..Len(ret) : ret[i] = i

C4_Witness ==
  /\ pc = "EnrichRet"
  /\ last # NoAnswer
  /\ last.kind = "raise"
  /\ Len(lookupCalls) > 1
  /\ Len(lookupCalls) < Len(ret)

\* C5: a failure of upload_to_sheets ends in the generic "Something went
\* wrong" dialog of the top-level handler: once the exception has left the
\* stage, that dialog is shown.
C5_PublisherFailureDialog ==
  (publishRaised /\ pc # "PublishRaised") => dialog = "went_wrong"

\* C6: when enrich_leads returns, every lead of the list was looked up and
\* has an email field that is the address the lookup found or "N/A".
C6_EveryLeadHasEmail ==
  pc = "EnrichRet" =>
    /\ Len(lookupCalls) = Len(leads)
    /\ \A i \in 1..Len(ret) :
         /\ "email" \in DOMAIN heap[ret[i]]
         /\ \/ heap[ret[i]].email = Str("N/A")
            \/ /\ lookupResult[ret[i]] = LookupFound
               /\ heap[ret[i]].email = Str("a@x.io")

\* C7 as stated: the empty list gives one row in all, N >= 1 leads give N + 1.
C7_RowsAsStated ==
  pc = "PublishRet" => Len(rows) = (IF leads = <<>> THEN 1 ELSE Len(leads) + 1)

\* C7: upload_to_sheets writes, for the empty list, two rows: the header
\* name, email, why_fit and exactly one placeholder row; for N >= 1 leads,
\* N + 1 rows: the header, then one row per lead in input order.
C7_SheetRows ==
  pc = "PublishRet" =>
    IF leads = <<>>
      THEN rows = << <<"name", "email", "why_fit">>,
                     <<"No leads found", "N/A", "Try a different audience">> >>
      ELSE /\ Len(rows) = Len(leads) + 1
           /\ SubSeq(rows[1], 1, 5) = <<"username", "name", "post", "source", "score">>
           /\ \A i \in 1..Len(leads) :
                /\ Len(rows[i + 1]) = Len(rows[1])
                /\ rows[i + 1][1] = heap[leads[i]].username
                /\ rows[i + 1][2] = heap[leads[i]].name
                /\ rows[i + 1][3] = heap[leads[i]].post
                /\ rows[i + 1][5] = heap[leads[i]].score

C7_Witness == pc = "PublishRet" /\ leads = <<>> /\ Len(rows) = 2

\* a plain non-negative integer literal and its value
PlainLiteral(s) ==
  /\ Len(s) > 0
  /\ \A i \in 1..Len(s) : s[i] \in {"0", "1", "2", "3", "4", "5", "6", "7", "8", "9"}

DigitNumber(c) ==
  CASE c = "0" -> 0 [] c = "1" -> 1 [] c = "2" -> 2 [] c = "3" -> 3 [] c = "4" -> 4
    [] c = "5" -> 5 [] c = "6" -> 6 [] c = "7" -> 7 [] c = "8" -> 8 [] c = "9" -> 9

RECURSIVE LiteralValue(_)
LiteralValue(s) ==
  IF s = <<>> THEN 0
  ELSE DigitNumber(Head(s)) * 10 ^ (Len(s) - 1) + LiteralValue(Tail(s))

\* r without its leading and trailing blanks
Trimmed(r) ==
  CHOOSE t \in {SubSeq(r, i, j) : i \in 1..(Len(r) + 1), j \in 0..Len(r)} :
    \E i \in 1..(Len(r) + 1), j \in 0..Len(r) :
      /\ i <= j + 1
      /\ t = SubSeq(r, i, j)
      /\ \A k \in 1..(i - 1) : r[k] = " "
      /\ \A k \in (j + 1)..Len(r) : r[k] = " "
      /\ t = <<>> \/ (t[1] # " " /\ t[Len(t)] # " ")

\* C8: after a scoring call answered by the reply r, score is the value of
\* the trimmed r when that is a plain non-negative integer literal, else 0;
\* "7" gives 7, "abc" gives 0, "" gives 0, "-3" gives 0.
C8_ScoreParsing ==
  scoreCalls # <<>> =>
    LET r == last.content.v
    IN /\ score = IF PlainLiteral(Trimmed(r)) THEN LiteralValue(Trimmed(r)) ELSE 0
       /\ r = <<"7">> => score = 7
       /\ r = <<"a", "b", "c">> => score = 0
       /\ r = <<>> => score = 0
       /\ r = <<"-", "3">> => score = 0

C8_Witness == scoreCalls # <<>> /\ last = Reply(<<" ", "7", " ">>) /\ score = 7

\* C9: in qualify_leads each lead is scored at most once, in input order; a
\* lead whose scoring call failed has score 0 and is not kept; the loop goes
\* on while fewer than LEADS_PER_RUN leads are kept, so that at the return
\* every input lead was scored, or the lead scored last was the
\* LEADS_PER_RUN-th kept (or the stage failed before any call).
C9_FailedCallDoesNotAbort ==
  /\ scoreCalls = SubSeq(leads, 1, Len(scoreCalls))
  /\ Cardinality(Range(scoreCalls)) = Len(scoreCalls)
  /\ \A f \in scoreFails :
       f \notin Range(qualified) /\ "score" \notin DOMAIN heap[f]
  /\ (scoreCalls # <<>> /\ scoreCalls[Len(scoreCalls)] \in scoreFails) => score = 0
  /\ pc = "Qualifying" => Len(qualified) < LEADS_PER_RUN
  /\ pc = "QualifyRet" =>
       \/ scoreCalls = <<>> /\ ret = <<>>
       \/ Len(scoreCalls) = Len(leads) /\ ret = qualified
       \/ /\ Len(ret) = LEADS_PER_RUN
          /\ ret[LEADS_PER_RUN] = scoreCalls[Len(scoreCalls)]

C9_Witness ==
  /\ pc = "QualifyRet"
  /\ \E f \in scoreFails : \E i \in 1..Len(ret) : ret[i] > f
  /\ Len(scoreCalls) = Len(leads)

\* the same letter, whatever the case
SameLetter(c, d) ==
  c = d \/ {c, d} \in {{"a", "A"}, {"b", "B"}, {"c", "C"}}

ContainsIgnoringCase(sub, s) ==
  \E off \in 0..(Len(s) - Len(sub)) :
    \A k \in 1..Len(sub) : SameLetter(sub[k], s[off + k])

\* C10: scrape_public_fb_leads returns at most 2 * LEADS_PER_RUN leads, each
\* made from a post of the feed whose text contains the audience whatever the
\* case, in the order of the feed; when retrieval failed it returns the
\* empty list, also after matching posts were collected.
C10_CollectorResult ==
  pc = "CollectRet" =>
    /\ Len(ret) <= 2 * LEADS_PER_RUN
    /\ \A i \in 1..Len(ret) :
         /\ ret[i] \in 1..yielded
         /\ ContainsIgnoringCase(audience, heap[ret[i]].post)
    /\ \A i, j \in 1..Len(ret) : i < j => ret[i] < ret[j]
    /\ last = FeedRaises => ret = <<>>

C10_Witness ==
  pc = "CollectRet" /\ last = FeedRaises /\ Len(leads) > 1 /\ ret = <<>>

====
